---- MODULE Spec2Model ----
(***************************************************************************)
(* Model of consumers/project_consumer_sruiz.py: a Kafka consumer that     *)
(* keeps, per author, a message count and a list of sentiment scores and   *)
(* redraws two bar charts after every recorded message.                    *)
(*                                                                         *)
(* A Python dict is modelled as a sequence of [k, v] entries in insertion  *)
(* order.  Sentiment scores are integers in units of 1/ScoreScale; a mean  *)
(* is the reduced fraction <<numerator, denominator>> of the real value    *)
(* (binary floating point rounding of sum()/len() is not modelled).        *)
(* pc is the line main() or process_message() is about to execute.         *)
(***************************************************************************)
EXTENDS Integers, Sequences, FiniteSets

\* ---------------------------------------------------------------- bounds
\* number of records the Event Source yields before the run is cut off
MaxEvents == 3

\* number of times the plotting backend fails during one run
MaxRenderFailures == 1

\* ------------------------------------------------------------- constants
\* scores are tenths: 8 stands for 0.8
ScoreScale == 10

\* ---------------------------------------------------------------- inputs
\* raw payloads are text that is not JSON ("invalid"), JSON that is not an
\* object ("scalar"), or a JSON object with these members

\* the "author" member of a JSON object: missing, a string, null, or a
\* list (unhashable in Python)
AuthorFields == {"ABSENT", "a", "b", "NULL", "LIST"}

\* the "message" member of a JSON object: missing, a string, or a number
MessageFields == {"ABSENT", "great", "bad", "NUMBER"}

Payloads ==
    {[kind |-> "invalid", author |-> "ABSENT", message |-> "ABSENT"],
     [kind |-> "scalar", author |-> "ABSENT", message |-> "ABSENT"]}
    \cup [kind : {"object"}, author : AuthorFields, message : MessageFields]

NoPayload == [kind |-> "none", author |-> "ABSENT", message |-> "ABSENT"]

\* values of the local variables before they are assigned
Unbound == "UNBOUND"
NoScore == 99

VARIABLES
    pc,                 \* control position of main / process_message
    consumer,           \* "none", "open" or "closed"
    message,            \* the record the for loop last bound
    author,             \* process_message local
    message_text,       \* process_message local
    sentiment_score,    \* process_message local
    author_counts,      \* dict author -> int, insertion ordered
    author_sentiments,  \* dict author -> list of scores, insertion ordered
    panelA,             \* bars on ax_count: sequence of <<label, height>>
    panelB,             \* bars on ax_sentiment: sequence of <<label, mean>>
    errors,             \* number of logger.error calls so far
    warnings,           \* number of logger.warning calls so far
    \* history variables (not program state)
    pulled,             \* number of records the for loop has received
    scored,             \* <<author, score>> of every event the scorer accepted
    drawsA,             \* number of update_chart calls
    drawsB,             \* number of update_sentiment_chart calls
    pre,                \* tables and counters when process_message was entered
    raised,             \* the stage of the current event that raised, or "none"
    renderFailures,     \* number of times the plotting backend has failed
    stopCause           \* why the for loop was left, or "none"

vars == <<pc, consumer, message, author, message_text, sentiment_score,
          author_counts, author_sentiments, panelA, panelB, errors, warnings,
          pulled, scored, drawsA, drawsB, pre, raised, renderFailures,
          stopCause>>

locals == <<author, message_text, sentiment_score>>
tables == <<author_counts, author_sentiments>>
panels == <<panelA, panelB, drawsA, drawsB, renderFailures>>
logs == <<errors, warnings>>

\* ------------------------------------------------------- dict operations
Keys(d) == [i \in DOMAIN d |-> d[i].k]

KeySet(d) == {d[i].k : i \in DOMAIN d}

Values(d) == [i \in DOMAIN d |-> d[i].v]

HasKey(d, k) == \E i \in DOMAIN d : d[i].k = k

IndexOf(d, k) == CHOOSE i \in DOMAIN d : d[i].k = k

Get(d, k) == d[IndexOf(d, k)].v

\* variant: a new key is put in front of the existing ones
Touch_Prepend(d, k, default) ==
    IF HasKey(d, k) THEN d ELSE <<[k |-> k, v |-> default]>> \o d

\* defaultdict.__missing__: a key that is looked up and absent is inserted
\* at the end with the default value
Touch(d, k, default) ==
    IF HasKey(d, k) THEN d ELSE Append(d, [k |-> k, v |-> default])

SetItem(d, k, v) == [d EXCEPT ![IndexOf(d, k)].v = v]

\* hash(author): a list cannot be a dict key
Hashable(a) == a # "LIST"

\* variant: author_sentiments[author] = [sentiment_score]
AppendSentiment_Overwrite(d, k, s) == SetItem(Touch(d, k, <<>>), k, <<s>>)

\* variant: a neutral score creates the entry but is not appended
AppendSentiment_SkipNeutral(d, k, s) ==
    IF s = 0 THEN Touch(d, k, <<>>)
    ELSE SetItem(Touch(d, k, <<>>), k, Append(Get(Touch(d, k, <<>>), k), s))

\* author_sentiments[author].append(sentiment_score)
AppendSentiment(d, k, s) ==
    SetItem(Touch(d, k, <<>>), k, Append(Get(Touch(d, k, <<>>), k), s))

\* variant: author_counts[author] += 2
IncrementCount_Twice(d, k) ==
    SetItem(Touch(d, k, 0), k, Get(Touch(d, k, 0), k) + 2)

\* author_counts[author] += 1
IncrementCount(d, k) ==
    SetItem(Touch(d, k, 0), k, Get(Touch(d, k, 0), k) + 1)

\* ------------------------------------------------------------- decoding
\* variant: message_dict.get("author"), whose default is None
GetAuthor_NoneDefault(p) == IF p.author = "ABSENT" THEN "NULL" ELSE p.author

\* message_dict.get("author", "unknown")
GetAuthor(p) == IF p.author = "ABSENT" THEN "unknown" ELSE p.author

\* message_dict.get("message", "")
GetMessage(p) == IF p.message = "ABSENT" THEN "" ELSE p.message

\* TextBlob(message) accepts str only
ScorerAccepts(t) == t # "NUMBER"

\* TextBlob(message).sentiment.polarity, in tenths
analyze_sentiment(t) ==
    CASE t = "great" -> 8
      [] t = "bad" -> -6
      [] OTHER -> 0

\* ------------------------------------------------------------ arithmetic
RECURSIVE Sum(_)
Sum(s) == IF s = <<>> THEN 0 ELSE s[1] + Sum(Tail(s))

Abs(n) == IF n < 0 THEN -n ELSE n

RECURSIVE Gcd(_, _)
Gcd(m, n) == IF n = 0 THEN m ELSE Gcd(n, m % n)

\* the real number n / d as a reduced fraction, d > 0
Fraction(n, d) ==
    LET g == Gcd(Abs(n), d) IN <<n \div g, d \div g>>

\* variant: sum(scores) / (len(scores) + 1)
Mean_OffByOne(scores) == Fraction(Sum(scores), ScoreScale * (Len(scores) + 1))

\* sum(scores) / len(scores), as a fraction of 1 (scores are tenths)
Mean(scores) == Fraction(Sum(scores), ScoreScale * Len(scores))

\* -------------------------------------------------------------- charts
\* list(author_counts.keys()), list(author_counts.values())
CountBars(d) == [i \in DOMAIN d |-> <<d[i].k, d[i].v>>]

\* sum(scores) / len(scores) raises ZeroDivisionError on an empty list
MeanDefined(d) == \A i \in DOMAIN d : d[i].v # <<>>

SentimentBars(d) == [i \in DOMAIN d |-> <<d[i].k, Mean(d[i].v)>>]

Snapshot ==
    [counts |-> author_counts, sentiments |-> author_sentiments,
     errors |-> errors, drawsA |-> drawsA, drawsB |-> drawsB]

\* ------------------------------------------------------------------ Init
Init ==
    /\ pc = "create"
    /\ consumer = "none"
    /\ message = NoPayload
    /\ author = Unbound
    /\ message_text = Unbound
    /\ sentiment_score = NoScore
    /\ author_counts = <<>>
    /\ author_sentiments = <<>>
    /\ panelA = <<>>
    /\ panelB = <<>>
    /\ errors = 0
    /\ warnings = 0
    /\ pulled = 0
    /\ scored = <<>>
    /\ drawsA = 0
    /\ drawsB = 0
    /\ pre = [counts |-> <<>>, sentiments |-> <<>>,
              errors |-> 0, drawsA |-> 0, drawsB |-> 0]
    /\ raised = "none"
    /\ renderFailures = 0
    /\ stopCause = "none"

\* ------------------------------------------------------------------ main
\* consumer = create_kafka_consumer(topic, group_id)
CreateConsumer ==
    /\ pc = "create"
    /\ consumer' = "open"
    /\ pc' = "for"
    /\ UNCHANGED <<message, locals, tables, panels, logs,
                   pulled, scored, pre, raised, stopCause>>

\* for message in consumer: the iterator yields a record and
\* process_message(message.value) is entered
Pull ==
    /\ pc = "for"
    /\ pulled < MaxEvents
    /\ \E p \in Payloads : message' = p
    /\ pulled' = pulled + 1
    /\ pre' = Snapshot
    /\ raised' = "none"
    /\ pc' = "loads"
    /\ UNCHANGED <<consumer, locals, tables, panels, logs, scored, stopCause>>

\* for message in consumer: the iterator is exhausted
EndOfStream ==
    /\ pc = "for"
    /\ stopCause' = "end_of_stream"
    /\ pc' = "finally"
    /\ UNCHANGED <<consumer, message, locals, tables, panels, logs,
                   pulled, scored, pre, raised>>

\* for message in consumer: the iterator raises (broker or deserializer error)
SourceError ==
    /\ pc = "for"
    /\ stopCause' = "source_error"
    /\ pc' = "except_exception"
    /\ UNCHANGED <<consumer, message, locals, tables, panels, logs,
                   pulled, scored, pre, raised>>

\* the positions inside the try block of main, process_message included
TryBody ==
    {"for", "loads", "isinstance", "get", "analyze", "append", "increment",
     "update_chart", "update_sentiment_chart", "log_charts",
     "except_json", "except_pm"}

\* KeyboardInterrupt is raised in the main thread while it is inside the try
\* block; it is a BaseException, so the handlers of process_message do not
\* catch it and it reaches the handler of main
Interrupt ==
    /\ pc \in TryBody
    /\ consumer = "open"
    /\ stopCause' = "interrupt"
    /\ pc' = "except_keyboard"
    /\ UNCHANGED <<consumer, message, locals, tables, panels, logs,
                   pulled, scored, pre, raised>>

\* except KeyboardInterrupt: logger.warning(...)
ExceptKeyboardInterrupt ==
    /\ pc = "except_keyboard"
    /\ warnings' = warnings + 1
    /\ pc' = "finally"
    /\ UNCHANGED <<consumer, message, locals, tables, panels, errors,
                   pulled, scored, pre, raised, stopCause>>

\* variant: the handler ends main without reaching consumer.close()
ExceptException_NoFinally ==
    /\ pc = "except_exception"
    /\ errors' = errors + 1
    /\ pc' = "stopped"
    /\ UNCHANGED <<consumer, message, locals, tables, panels, warnings,
                   pulled, scored, pre, raised, stopCause>>

\* except Exception as e: logger.error(...)
ExceptException ==
    /\ pc = "except_exception"
    /\ errors' = errors + 1
    /\ pc' = "finally"
    /\ UNCHANGED <<consumer, message, locals, tables, panels, warnings,
                   pulled, scored, pre, raised, stopCause>>

\* finally: consumer.close(); then main logs END and returns
Finally ==
    /\ pc = "finally"
    /\ consumer' = "closed"
    /\ pc' = "stopped"
    /\ UNCHANGED <<message, locals, tables, panels, logs,
                   pulled, scored, pre, raised, stopCause>>

\* ------------------------------------------------------- process_message
\* process_message returns to the for loop; its locals are gone
Return ==
    /\ pc' = "for"
    /\ author' = Unbound
    /\ message_text' = Unbound
    /\ sentiment_score' = NoScore

\* an exception other than json.JSONDecodeError is raised inside the try
\* block of process_message by the given stage
Raise(stage) ==
    /\ raised' = stage
    /\ pc' = "except_pm"

\* message_dict = json.loads(message)
JsonLoads ==
    /\ pc = "loads"
    /\ IF message.kind = "invalid"
       THEN /\ raised' = "decode"
            /\ pc' = "except_json"
       ELSE /\ raised' = raised
            /\ pc' = "isinstance"
    /\ UNCHANGED <<consumer, message, locals, tables, panels, logs,
                   pulled, scored, pre, stopCause>>

\* variant: the fields are read without the isinstance check
IsInstance_NoCheck ==
    /\ pc = "isinstance"
    /\ pc' = "get"
    /\ UNCHANGED <<consumer, message, locals, tables, panels, logs,
                   pulled, scored, pre, raised, stopCause>>

\* variant: the else branch logs and then raises, so the handler logs again
IsInstance_LogAndRaise ==
    /\ pc = "isinstance"
    /\ IF message.kind = "object"
       THEN /\ pc' = "get"
            /\ UNCHANGED <<errors, raised>>
       ELSE /\ errors' = errors + 1
            /\ Raise("decode")
    /\ UNCHANGED <<consumer, message, locals, tables, panels, warnings,
                   pulled, scored, pre, stopCause>>

\* if isinstance(message_dict, dict): ... else: logger.error(...)
IsInstance ==
    /\ pc = "isinstance"
    /\ IF message.kind = "object"
       THEN /\ pc' = "get"
            /\ UNCHANGED <<locals, errors, raised>>
       ELSE /\ errors' = errors + 1
            /\ raised' = "decode"
            /\ Return
    /\ UNCHANGED <<consumer, message, tables, panels, warnings,
                   pulled, scored, pre, stopCause>>

\* variant: the count is incremented as soon as the author is known
GetFields_CountFirst ==
    /\ pc = "get"
    /\ author' = GetAuthor(message)
    /\ message_text' = GetMessage(message)
    /\ author_counts' = IF Hashable(author')
                        THEN IncrementCount(author_counts, author')
                        ELSE author_counts
    /\ pc' = "analyze"
    /\ UNCHANGED <<consumer, message, sentiment_score, author_sentiments,
                   panels, logs, pulled, scored, pre, raised, stopCause>>

\* author = message_dict.get("author", "unknown")
\* message_text = message_dict.get("message", "")
GetFields ==
    /\ pc = "get"
    /\ author' = GetAuthor(message)
    /\ message_text' = GetMessage(message)
    /\ pc' = "analyze"
    /\ UNCHANGED <<consumer, message, sentiment_score, tables, panels, logs,
                   pulled, scored, pre, raised, stopCause>>

\* sentiment_score = analyze_sentiment(message_text)
AnalyzeSentiment ==
    /\ pc = "analyze"
    /\ IF ScorerAccepts(message_text)
       THEN /\ sentiment_score' = analyze_sentiment(message_text)
            /\ scored' = Append(scored, <<author, sentiment_score'>>)
            /\ pc' = "append"
            /\ UNCHANGED raised
       ELSE /\ Raise("score")
            /\ UNCHANGED <<sentiment_score, scored>>
    /\ UNCHANGED <<consumer, message, author, message_text, tables, panels,
                   logs, pulled, pre, stopCause>>

\* author_sentiments[author].append(sentiment_score)
TrackSentiment ==
    /\ pc = "append"
    /\ IF Hashable(author)
       THEN /\ author_sentiments' =
                   AppendSentiment(author_sentiments, author, sentiment_score)
            /\ pc' = "increment"
            /\ UNCHANGED raised
       ELSE /\ Raise("update")
            /\ UNCHANGED author_sentiments
    /\ UNCHANGED <<consumer, message, locals, author_counts, panels, logs,
                   pulled, scored, pre, stopCause>>

\* author_counts[author] += 1
CountMessage ==
    /\ pc = "increment"
    /\ author_counts' = IncrementCount(author_counts, author)
    /\ pc' = "update_chart"
    /\ UNCHANGED <<consumer, message, locals, author_sentiments, panels, logs,
                   pulled, scored, pre, raised, stopCause>>

\* variant: the bars are added without ax_count.clear()
UpdateChart_NoClear ==
    /\ pc = "update_chart"
    /\ panelA' = panelA \o CountBars(author_counts)
    /\ drawsA' = drawsA + 1
    /\ pc' = "update_sentiment_chart"
    /\ UNCHANGED <<consumer, message, locals, tables, panelB, drawsB,
                   renderFailures, logs,
                   pulled, scored, pre, raised, stopCause>>

\* variant: the chart looks up author_counts["unknown"], which a
\* defaultdict inserts when it is absent
UpdateChart_Lookup ==
    /\ pc = "update_chart"
    /\ author_counts' = Touch(author_counts, "unknown", 0)
    /\ panelA' = CountBars(author_counts')
    /\ drawsA' = drawsA + 1
    /\ pc' = "update_sentiment_chart"
    /\ UNCHANGED <<consumer, message, locals, author_sentiments, panelB, drawsB,
                   renderFailures, logs,
                   pulled, scored, pre, raised, stopCause>>

\* update_chart() draws every bar and returns
UpdateChart ==
    /\ pc = "update_chart"
    /\ panelA' = CountBars(author_counts)
    /\ drawsA' = drawsA + 1
    /\ pc' = "update_sentiment_chart"
    /\ UNCHANGED <<consumer, message, locals, tables, panelB, drawsB,
                   renderFailures, logs,
                   pulled, scored, pre, raised, stopCause>>

\* update_chart() raises in the plotting backend: after ax_count.clear()
\* and before the bars are drawn, or after they are drawn
UpdateChartFails ==
    /\ pc = "update_chart"
    /\ renderFailures < MaxRenderFailures
    /\ renderFailures' = renderFailures + 1
    /\ panelA' \in {<<>>, CountBars(author_counts)}
    /\ drawsA' = drawsA + 1
    /\ Raise("render")
    /\ UNCHANGED <<consumer, message, locals, tables, panelB, drawsB, logs,
                   pulled, scored, pre, stopCause>>

\* update_sentiment_chart() draws every bar and returns; the means raise
\* ZeroDivisionError if some author has no score
UpdateSentimentChart ==
    /\ pc = "update_sentiment_chart"
    /\ drawsB' = drawsB + 1
    /\ IF MeanDefined(author_sentiments)
       THEN /\ panelB' = SentimentBars(author_sentiments)
            /\ pc' = "log_charts"
            /\ UNCHANGED raised
       ELSE /\ panelB' = <<>>
            /\ Raise("render")
    /\ UNCHANGED <<consumer, message, locals, tables, panelA, drawsA,
                   renderFailures, logs,
                   pulled, scored, pre, stopCause>>

\* update_sentiment_chart() raises in the plotting backend
UpdateSentimentChartFails ==
    /\ pc = "update_sentiment_chart"
    /\ MeanDefined(author_sentiments)
    /\ renderFailures < MaxRenderFailures
    /\ renderFailures' = renderFailures + 1
    /\ panelB' \in {<<>>, SentimentBars(author_sentiments)}
    /\ drawsB' = drawsB + 1
    /\ Raise("render")
    /\ UNCHANGED <<consumer, message, locals, tables, panelA, drawsA, logs,
                   pulled, scored, pre, stopCause>>

\* logger.info("Charts updated successfully ..."); return
LogCharts ==
    /\ pc = "log_charts"
    /\ Return
    /\ UNCHANGED <<consumer, message, tables, panels, logs,
                   pulled, scored, pre, raised, stopCause>>

\* variant: the handler logs and raises again, so main's handler is reached
ExceptJsonDecodeError_Reraise ==
    /\ pc = "except_json"
    /\ errors' = errors + 1
    /\ pc' = "except_exception"
    /\ UNCHANGED <<consumer, message, locals, tables, panels, warnings,
                   pulled, scored, pre, raised, stopCause>>

\* except json.JSONDecodeError: logger.error(...)
ExceptJsonDecodeError ==
    /\ pc = "except_json"
    /\ errors' = errors + 1
    /\ Return
    /\ UNCHANGED <<consumer, message, tables, panels, warnings,
                   pulled, scored, pre, raised, stopCause>>

\* variant: the handler logs and raises again, so main's handler is reached
ExceptProcessing_Reraise ==
    /\ pc = "except_pm"
    /\ errors' = errors + 1
    /\ pc' = "except_exception"
    /\ UNCHANGED <<consumer, message, locals, tables, panels, warnings,
                   pulled, scored, pre, raised, stopCause>>

\* variant: the handler restores the tables of before the event
ExceptProcessing_Rollback ==
    /\ pc = "except_pm"
    /\ errors' = errors + 1
    /\ author_counts' = pre.counts
    /\ author_sentiments' = pre.sentiments
    /\ Return
    /\ UNCHANGED <<consumer, message, panels, warnings,
                   pulled, scored, pre, raised, stopCause>>

\* variant: the handler also redraws the count chart
ExceptProcessing_Redraw ==
    /\ pc = "except_pm"
    /\ errors' = errors + 1
    /\ panelA' = CountBars(author_counts)
    /\ drawsA' = drawsA + 1
    /\ Return
    /\ UNCHANGED <<consumer, message, tables, panelB, drawsB, renderFailures,
                   warnings, pulled, scored, pre, raised, stopCause>>

\* except Exception as e: logger.error(...)
ExceptProcessing ==
    /\ pc = "except_pm"
    /\ errors' = errors + 1
    /\ Return
    /\ UNCHANGED <<consumer, message, tables, panels, warnings,
                   pulled, scored, pre, raised, stopCause>>

\* ------------------------------------------------------------ behaviours
Next ==
    \/ CreateConsumer
    \/ Pull
    \/ EndOfStream
    \/ SourceError
    \/ Interrupt
    \/ ExceptKeyboardInterrupt
    \/ ExceptException
    \/ Finally
    \/ JsonLoads
    \/ IsInstance
    \/ GetFields
    \/ AnalyzeSentiment
    \/ TrackSentiment
    \/ CountMessage
    \/ UpdateChart
    \/ UpdateChartFails
    \/ UpdateSentimentChart
    \/ UpdateSentimentChartFails
    \/ LogCharts
    \/ ExceptJsonDecodeError
    \/ ExceptProcessing

Spec == Init /\ [][Next]_vars

TypeOK ==
    /\ pc \in TryBody \cup {"create", "except_keyboard", "except_exception",
                            "finally", "stopped"}
    /\ consumer \in {"none", "open", "closed"}
    /\ pulled \in 0..MaxEvents
    /\ Len(scored) <= pulled

\* ------------------------------------------------- vocabulary of the claims
CountOf(d, k) == IF HasKey(d, k) THEN Get(d, k) ELSE 0

ScoresOf(d, k) == IF HasKey(d, k) THEN Get(d, k) ELSE <<>>

AllKeys == KeySet(author_counts) \cup KeySet(author_sentiments)

\* process_message has returned for every record pulled so far
ProcessReturned ==
    \/ pc = "for"
    \/ stopCause \in {"end_of_stream", "source_error"}

\* main has left the try block
LoopLeft == pc \in {"except_keyboard", "except_exception", "finally", "stopped"}

Malformed(p) == p.kind \in {"invalid", "scalar"}

\* the events the scorer accepted whose author can be a key
IsRecordable(e) == Hashable(e[1])

Recordable == SelectSeq(scored, IsRecordable)

RECURSIVE CountAuthor(_, _)
CountAuthor(s, k) ==
    IF s = <<>> THEN 0
    ELSE (IF s[1][1] = k THEN 1 ELSE 0) + CountAuthor(Tail(s), k)

RECURSIVE ScoresOfAuthor(_, _)
ScoresOfAuthor(s, k) ==
    IF s = <<>> THEN <<>>
    ELSE (IF s[1][1] = k THEN <<s[1][2]>> ELSE <<>>) \o ScoresOfAuthor(Tail(s), k)

RECURSIVE FirstAppearances(_, _)
FirstAppearances(s, seen) ==
    IF s = <<>> THEN <<>>
    ELSE IF s[1][1] \in seen THEN FirstAppearances(Tail(s), seen)
    ELSE <<s[1][1]>> \o FirstAppearances(Tail(s), seen \cup {s[1][1]})

IsPrefix(s, t) == Len(s) <= Len(t) /\ \A i \in DOMAIN s : s[i] = t[i]

Last(s) == s[Len(s)]

\* ---------------------------------------------------------------- claims

\* C1: whenever process_message has returned, author_counts and
\* author_sentiments have the same key set and each author's number of
\* scores equals the author's count.
C1_TablesSynchronized ==
    ProcessReturned =>
        /\ KeySet(author_counts) = KeySet(author_sentiments)
        /\ \A k \in AllKeys :
              Len(ScoresOf(author_sentiments, k)) = CountOf(author_counts, k)

C1_Witness ==
    /\ pc = "for"
    /\ pulled = MaxEvents
    /\ errors > 0
    /\ \E k \in AllKeys : CountOf(author_counts, k) = 2

\* C2: when every record pulled so far was a valid event (decoded to an
\* object and accepted by the scorer) and all have been processed, the
\* counts add up to the number of events and each author's count is the
\* number of events with that decoded author.
C2_ValidEventsAllCounted ==
    (ProcessReturned /\ Len(scored) = pulled) =>
        /\ Sum(Values(author_counts)) = pulled
        /\ \A i \in DOMAIN scored :
              CountOf(author_counts, scored[i][1]) = CountAuthor(scored, scored[i][1])

\* C3: a payload that is not JSON, or is JSON but not an object, leaves
\* both tables as they were when process_message was entered and draws
\* neither chart.
C3_MalformedLeavesState ==
    Malformed(message) =>
        /\ author_counts = pre.counts
        /\ author_sentiments = pre.sentiments
        /\ drawsA = pre.drawsA
        /\ drawsB = pre.drawsB

C3_Witness ==
    /\ pc = "for"
    /\ Malformed(message)
    /\ author_counts # <<>>
    /\ errors = pre.errors + 1

\* C4: an exception raised while one event is processed is caught inside
\* process_message, and its handler returns to the for loop with the
\* consumer still open; only an interrupt can take the handler's place.
C4_FailureDoesNotStopLoop ==
    [][/\ (raised = "none" /\ raised' # "none")
            => pc' \in {"except_json", "except_pm", "for"}
       /\ pc \in {"except_json", "except_pm"}
            => \/ pc' = "for" /\ consumer' = "open" /\ errors' = errors + 1
               \/ pc' = "except_keyboard"]_vars

\* a later event was recorded after an earlier one had failed
C4_Witness ==
    /\ pc = "for"
    /\ pulled = MaxEvents
    /\ raised = "none"
    /\ pre.errors > 0
    /\ author_counts # pre.counts

\* C5: once main has finished, on whichever path it left the loop, the
\* consumer is closed; it is open for as long as the loop runs.
C5_SourceReleased ==
    /\ pc = "stopped" => consumer = "closed"
    /\ pc \in TryBody => consumer = "open"

C5_Witness ==
    /\ pc = "stopped"
    /\ stopCause = "source_error"
    /\ consumer = "closed"
    /\ pulled > 0

\* C6 as stated: the try block is left only through the end of the
\* iteration or through the KeyboardInterrupt handler, and after that main
\* pulls, records and draws nothing.
C6_StopsOnlyOnInterruptOrEnd ==
    [][/\ (pc \in TryBody /\ pc' \notin TryBody)
            => pc' \in {"finally", "except_keyboard"}
       /\ LoopLeft
            => /\ LoopLeft'
               /\ UNCHANGED <<pulled, tables, panels>>]_vars

\* C6 amended: the try block is left only through the end of the
\* iteration, the KeyboardInterrupt handler, or the Exception handler of
\* main, which only an error raised by the iteration itself reaches; after
\* that main pulls, records and draws nothing.
C6_StopCauses ==
    [][/\ (pc \in TryBody /\ pc' \notin TryBody)
            => pc' \in {"finally", "except_keyboard", "except_exception"}
       /\ pc' = "except_exception" => pc = "for"
       /\ pc' = "finally" => pc \in {"for", "except_keyboard", "except_exception"}
       /\ LoopLeft
            => /\ LoopLeft'
               /\ UNCHANGED <<pulled, tables, panels>>]_vars

C6_Witness ==
    /\ pc = "stopped"
    /\ stopCause = "source_error"
    /\ errors = 1
    /\ author_counts # <<>>

C8_Committed ==
    /\ Len(scored) > 0
    /\ LET a == Last(scored)[1]
           x == Last(scored)[2]
       IN /\ CountOf(author_counts, a) = CountOf(pre.counts, a) + 1
          /\ ScoresOf(author_sentiments, a)
                = Append(ScoresOf(pre.sentiments, a), x)
          /\ \A k \in AllKeys \ {a} :
                /\ CountOf(author_counts, k) = CountOf(pre.counts, k)
                /\ ScoresOf(author_sentiments, k) = ScoresOf(pre.sentiments, k)

C8_RenderFailureKeepsUpdate ==
    /\ [](raised = "render" => C8_Committed)
    /\ [][(raised = "render" /\ pc = "except_pm")
              => \/ pc' = "for" /\ consumer' = "open" /\ UNCHANGED tables
                 \/ pc' = "except_keyboard"]_vars

C8_Witness ==
    /\ pc = "for"
    /\ raised = "render"
    /\ pulled < MaxEvents
    /\ consumer = "open"
    /\ CountOf(author_counts, "a") = 2

\* C9: once an event is recorded, the keys of author_counts, which
\* update_chart lists, are in the order in which the authors first had an
\* event recorded; a step never reorders or drops the keys already there.
C9_KeyOrderIsFirstAppearance ==
    /\ [](pc \in {"for", "update_chart", "update_sentiment_chart", "log_charts"}
             => Keys(author_counts) = FirstAppearances(Recordable, {}))
    /\ [](pc \in {"update_sentiment_chart", "log_charts"}
             => [i \in DOMAIN panelA |-> panelA[i][1]]
                   = FirstAppearances(Recordable, {}))
    /\ [][IsPrefix(Keys(author_counts), Keys(author_counts'))]_vars

C9_Witness ==
    /\ pc = "log_charts"
    /\ Keys(author_counts) = <<"b", "a">>
    /\ Get(author_counts, "a") = 2

\* C10: when both charts have been drawn for an event, the bar of every
\* author with a recorded event shows the sum of the scores of that
\* author's events divided by the author's count; the events (a, 0.8),
\* (b, -0.6), (a, 0.0) give counts a:2, b:1 and means 0.4 and -0.6.
C10_MeanIsSumOverCount ==
    pc = "log_charts" =>
        /\ {panelB[i][1] : i \in DOMAIN panelB} = {e[1] : e \in {Recordable[j] : j \in DOMAIN Recordable}}
        /\ \A i \in DOMAIN panelB :
              panelB[i][2] =
                  Fraction(Sum(ScoresOfAuthor(Recordable, panelB[i][1])),
                           ScoreScale * CountOf(author_counts, panelB[i][1]))
        /\ scored = << <<"a", 8>>, <<"b", -6>>, <<"a", 0>> >>
              => /\ CountBars(author_counts) = << <<"a", 2>>, <<"b", 1>> >>
                 /\ panelB = << <<"a", <<2, 5>> >>, <<"b", <<-3, 5>> >> >>

C10_Witness ==
    /\ pc = "log_charts"
    /\ scored = << <<"a", 8>>, <<"b", -6>>, <<"a", 0>> >>
    /\ panelB = << <<"a", <<2, 5>> >>, <<"b", <<-3, 5>> >> >>

\* C11 as stated: the KeyboardInterrupt handler of main is entered only from
\* the head of the for loop, between two events, with every recorded score
\* matched by its count.
C11_InterruptOnlyBetweenEvents ==
    [][pc' = "except_keyboard"
          => /\ pc = "for"
             /\ \A k \in AllKeys :
                   Len(ScoresOf(author_sentiments, k)) = CountOf(author_counts, k)]_vars

\* C12 as stated: where the tables can be observed (a chart update, a
\* handler of process_message, the state after main has stopped) no author
\* has a score without its count or a count without its score.
C12_RecordIsAtomic ==
    pc \in {"update_chart", "update_sentiment_chart", "except_json", "except_pm",
            "stopped"}
        => /\ KeySet(author_counts) = KeySet(author_sentiments)
           /\ \A k \in AllKeys :
                 Len(ScoresOf(author_sentiments, k)) = CountOf(author_counts, k)

\* number of events that have been recorded in author_counts
RecordedCount == Sum(Values(author_counts))

\* the event in flight has been scored and recorded in both tables
CurrentEventRecorded ==
    /\ sentiment_score # NoScore
    /\ Len(scored) > 0
    /\ Last(scored) = <<author, sentiment_score>>
    /\ CountOf(author_counts, author) = CountOf(pre.counts, author) + 1
    /\ ScoresOf(author_sentiments, author)
          = Append(ScoresOf(pre.sentiments, author), sentiment_score)

\* C13: an event is scored before it is recorded and recorded before a
\* chart is drawn, the count chart before the sentiment chart, and all of
\* it before the next record is pulled; when process_message has returned,
\* update_chart has been called exactly once per recorded event, and it is
\* never called for an event that was not recorded.
C13_StagesInOrder ==
    /\ [](drawsA <= RecordedCount /\ drawsB <= drawsA)
    /\ [](pc = "for" => drawsA = RecordedCount)
    /\ [][/\ author_sentiments' # author_sentiments
               => /\ sentiment_score # NoScore
                  /\ Last(scored) = <<author, sentiment_score>>
                  /\ author_counts' = author_counts
          /\ author_counts' # author_counts
               => /\ author_sentiments # pre.sentiments
                  /\ drawsA = pre.drawsA
          /\ drawsA' # drawsA
               => /\ CurrentEventRecorded
                  /\ drawsA' = pre.drawsA + 1
                  /\ drawsB = pre.drawsB
          /\ drawsB' # drawsB
               => /\ CurrentEventRecorded
                  /\ drawsA = pre.drawsA + 1
                  /\ drawsB' = pre.drawsB + 1
          /\ pulled' # pulled
               => /\ pc = "for"
                  /\ drawsA = RecordedCount]_vars

C13_Witness ==
    /\ pc = "for"
    /\ pulled = MaxEvents
    /\ drawsA = 2
    /\ drawsB = 2
    /\ RecordedCount = 2
    /\ raised = "score"

Labels(bars) == [i \in DOMAIN bars |-> bars[i][1]]

\* update_chart has been called for the event in flight and the render
\* step of the event is over
RenderStepOver ==
    /\ drawsA > pre.drawsA
    /\ pc \in {"log_charts", "except_pm", "for"}

C15_TablesOnlyGrow ==
    /\ [][/\ IsPrefix(Keys(author_counts), Keys(author_counts'))
          /\ IsPrefix(Keys(author_sentiments), Keys(author_sentiments'))
          /\ \A k \in AllKeys :
                /\ CountOf(author_counts', k) >= CountOf(author_counts, k)
                /\ CountOf(author_counts', k) <= CountOf(author_counts, k) + 1
                /\ IsPrefix(ScoresOf(author_sentiments, k),
                            ScoresOf(author_sentiments', k))
                /\ Len(ScoresOf(author_sentiments', k))
                      <= Len(ScoresOf(author_sentiments, k)) + 1]_vars
    /\ [](/\ RecordedCount - Sum(Values(pre.counts)) \in {0, 1}
          /\ \A k \in AllKeys :
                Len(ScoresOf(author_sentiments, k))
                   - Len(ScoresOf(pre.sentiments, k)) \in {0, 1})

C15_Witness ==
    /\ pc = "update_chart"
    /\ CountOf(pre.counts, "a") = 2
    /\ CountOf(author_counts, "a") = 3
    /\ ScoresOf(author_sentiments, "a") = <<8, -6, 0>>

\* C16: a call of update_chart or update_sentiment_chart changes neither
\* table, so what a chart showed when it was drawn is what the tables give
\* when they are read again before the next record.
C16_RenderReadsOnly ==
    /\ [][(drawsA' # drawsA \/ drawsB' # drawsB \/ panelA' # panelA
             \/ panelB' # panelB)
              => UNCHANGED tables]_vars
    /\ [](pc \in {"update_sentiment_chart", "log_charts"}
             => panelA = CountBars(author_counts))
    /\ [](pc = "log_charts"
             => /\ panelB = SentimentBars(author_sentiments)
                /\ author_counts = IncrementCount(pre.counts, author)
                /\ author_sentiments
                      = AppendSentiment(pre.sentiments, author, sentiment_score))

C16_Witness ==
    /\ pc = "log_charts"
    /\ Len(author_counts) = 3
    /\ panelA = CountBars(author_counts)
    /\ panelB = SentimentBars(author_sentiments)

\* C17: whenever update_sentiment_chart is about to compute the means,
\* every author in author_sentiments has at least one score and a count of
\* at least one, so no mean divides by zero.
C17_MeanNeverOverZeroScores ==
    pc = "update_sentiment_chart" =>
        /\ author_sentiments # <<>>
        /\ \A k \in KeySet(author_sentiments) :
              /\ Len(ScoresOf(author_sentiments, k)) >= 1
              /\ CountOf(author_counts, k) >= 1

C17_Witness ==
    /\ pc = "update_sentiment_chart"
    /\ Len(author_sentiments) = 3
    /\ \E k \in KeySet(author_sentiments) : Sum(Get(author_sentiments, k)) = 0

\* C18: when process_message has returned for a payload that is not JSON or
\* not a JSON object, exactly one error has been logged for it; for an
\* object processed without any stage raising, missing members included,
\* none has.
C18_OneErrorPerMalformedPayload ==
    pc = "for" =>
        /\ Malformed(message) => errors = pre.errors + 1
        /\ (message.kind = "object" /\ raised = "none") => errors = pre.errors

C18_Witness ==
    /\ pc = "for"
    /\ pulled = MaxEvents
    /\ message.kind = "scalar"
    /\ errors = 1
    /\ pre.errors = 0
    /\ CountOf(author_counts, "unknown") = 2

\* a Python str, as opposed to None or a list
IsString(a) == a \notin {"NULL", "LIST"}

\* C19 as stated: every key of either table is a string.
C19_KeysAreStrings ==
    \A k \in AllKeys : IsString(k)

\* C20: when the scorer raises on a decoded event, both tables are as they
\* were when process_message was entered, no chart is drawn, and once
\* process_message has returned exactly one error has been logged for it.
C20_ScorerFailureLeavesState ==
    raised = "score" =>
        /\ author_counts = pre.counts
        /\ author_sentiments = pre.sentiments
        /\ drawsA = pre.drawsA
        /\ drawsB = pre.drawsB
        /\ pc = "except_pm" => errors = pre.errors
        /\ pc = "for" => errors = pre.errors + 1

C20_Witness ==
    /\ pc = "for"
    /\ raised = "score"
    /\ message.message = "NUMBER"
    /\ message.author = "a"
    /\ CountOf(author_counts, "a") = 2
    /\ errors = 1

====
